---- MODULE Spec2Model ----
(***************************************************************************)
(* useLocalStorage<T>(key, initialValue): a React hook that binds a state  *)
(* cell to a window.localStorage slot (src/unnamed/part_004).              *)
(*                                                                         *)
(* T is modelled as the object type {n: number}; the documented usage      *)
(* passes an object literal as initialValue.  A value carries a reference  *)
(* tag r so that Object.is (React's dependency and bail-out comparison)    *)
(* can be told apart from deep equality: r = 0 is an object nobody else    *)
(* holds (built by JSON.parse, by the caller of setValue or by an          *)
(* updater), r > 0 names one of the objects the caller passes as           *)
(* initialValue.                                                           *)
(***************************************************************************)
EXTENDS Integers, Sequences, FiniteSets, TLC

\* Largest n of a value {n: n} the model enumerates.
MaxNum == 2

Bindings == {"A"}
Keys == {"user", "cart"}

\* window.localStorage.getItem returns null for a key with no entry.
NoItem == "<no item>"

\* ------------------------------------------------------------------ values

Obj(n, r) == [t |-> "obj", n |-> n, r |-> r]
Null == [t |-> "null", n |-> 0, r |-> 0]
NoValue == [t |-> "none", n |-> 0, r |-> 0]

\* The objects a caller passes as initialValue: {n: 0} or {n: 1}, each held
\* under one of two references (a module-level constant keeps one reference;
\* an object literal in the component body is a new object at every render).
InitialRefs == {1, 2}
InitialNums == {0, 1}
InitialValues == {Obj(n, r) : n \in InitialNums, r \in InitialRefs}

\* Values of T a caller passes to setValue as a literal.
Literals == {Obj(n, 0) : n \in 0..MaxNum}

\* Everything the state cell can hold: JSON.parse is unchecked, so null is in.
Values == Literals \cup InitialValues \cup {Null}

\* Deep equality of two values (what a JSON round trip can preserve).
SameValue(a, b) == a.t = b.t /\ a.n = b.n

\* Object.is(a, b) for the values of the model.
ObjectIs(a, b) ==
    /\ a.t = b.t
    /\ a.n = b.n
    /\ (a.t = "obj" => (a.r = b.r /\ a.r # 0))

\* ------------------------------------------------------------------- codec

Digits == <<"0", "1", "2", "3", "4", "5", "6", "7", "8", "9">>

\* JSON.stringify of a value of the model.
JSONstringify(v) ==
    IF v.t = "null" THEN "null" ELSE "{\"n\":" \o Digits[v.n + 1] \o "}"

\* Slot contents that are not JSON text.
Malformed == {"not-json"}

\* What a slot can hold: the texts setValue writes, and what another writer
\* (an older release, another script, the user) may have left there.
Texts == {JSONstringify(v) : v \in Literals} \cup {"null", ""} \cup Malformed

\* JSON.parse: whether the text parses, and the value it yields.
JSONparses(text) ==
    text = "null" \/ \E n \in 0..MaxNum : text = "{\"n\":" \o Digits[n + 1] \o "}"

JSONparse(text) ==
    IF text = "null" THEN Null
    ELSE Obj(CHOOSE n \in 0..MaxNum : text = "{\"n\":" \o Digits[n + 1] \o "}", 0)

\* JavaScript truthiness of getItem's result: null and "" are falsy.
Truthy(item) == item # NoItem /\ item # ""

\* ------------------------------------------------------------------ state

VARIABLES
    localStorage,   \* window.localStorage: key -> text, or NoItem
    mounted,        \* binding -> whether a component using the hook is mounted
    key,            \* binding -> the key argument of the last render
    firstKey,       \* binding -> the key argument of the first render
    initialValue,   \* binding -> the initialValue argument of the last render
    hookState,      \* binding -> the useState cell (pending updates applied)
    storedValue,    \* binding -> storedValue as the last render returned it
    needsRender,    \* binding -> a re-render is scheduled by a state update
    effectPending,  \* binding -> the last render's effect has not run yet
    persisted,      \* key -> the value setValue last stored there, if still there
    last,           \* what the last step ran: the handler, its calls, its result
    page,           \* which page is shown: LoginPage or RegisterPage, or none
    formData,       \* the page's formData state
    acceptTerms,    \* RegisterPage's acceptTerms state
    errors,         \* the page's errors state: field -> message, "" when unset
    isSubmitting,   \* the page's isSubmitting state
    inFlight,       \* handleSubmit runs waiting at their await, oldest first
    submits,        \* number of handleSubmit runs that passed validateForm
    callbacks,      \* number of onLogin / onRegister invocations
    formStep        \* what the last step of the page ran and called

formVars == <<page, formData, acceptTerms, errors, isSubmitting, inFlight,
              submits, callbacks, formStep>>

vars == <<localStorage, mounted, key, firstKey, initialValue, hookState,
          storedValue, needsRender, effectPending, persisted, last, formVars>>

\* ------------------------------------------------------- the form pages
\* LoginPage and RegisterPage.  A string is a tuple of characters.

Pages == {"login", "register"}
Fields == {"name", "email", "password", "confirmPassword", "general"}

EmptyString == <<>>
NameInputs == {EmptyString, <<" ">>, <<"A">>}
EmailInputs == {EmptyString, <<"a">>, <<"a", "@", "b", ".", "c">>}
PasswordInputs == {EmptyString, <<"1", "2", "3", "4", "5">>,
                   <<"1", "2", "3", "4", "5", "6">>}

\* useState({ name: '', email: '', password: '', confirmPassword: '' });
\* LoginPage has the fields email and password only, the others stay ''.
EmptyForm == [name |-> EmptyString, email |-> EmptyString,
              password |-> EmptyString, confirmPassword |-> EmptyString]

\* useState({}): no field has a message.
NoErrors == [f \in Fields |-> ""]

NoFormStep == [op |-> "none", valid |-> FALSE, events |-> <<>>,
               data |-> EmptyForm, terms |-> FALSE]

\* No page is shown.
NoForm ==
    /\ page = "none"
    /\ formData = EmptyForm
    /\ acceptTerms = FALSE
    /\ errors = NoErrors
    /\ isSubmitting = FALSE
    /\ inFlight = <<>>
    /\ submits = 0
    /\ callbacks = 0
    /\ formStep = NoFormStep

\* ----------------------------------------------------------------- events
\* The calls a handler makes on its collaborators, in program order.

EvGet(k, ok) == [e |-> "getItem", k |-> k, v |-> NoValue, t |-> "", ok |-> ok]
EvSet(k, t, ok) == [e |-> "setItem", k |-> k, v |-> NoValue, t |-> t, ok |-> ok]
EvCell(v) == [e |-> "setStoredValue", k |-> "", v |-> v, t |-> "", ok |-> TRUE]
EvLog(k) == [e |-> "console.error", k |-> k, v |-> NoValue, t |-> "", ok |-> TRUE]

Run(events, value, threw, ret) ==
    [events |-> events, value |-> value, threw |-> threw, ret |-> ret]

\* Positions of the events of one kind in a run.
Calls(events, e) == {i \in 1..Len(events) : events[i].e = e}

\* ------------------------------------------------------------ the hook

\* Lines 28-30 and 58-59: getItem(key), then item ? JSON.parse(item) : initialValue.
\* ok = FALSE when either call throws.
readItem(ls, k, init, getOk) ==
    IF ~getOk THEN [ok |-> FALSE, value |-> NoValue]
    ELSE IF ~Truthy(ls[k]) THEN [ok |-> TRUE, value |-> init]
    ELSE IF JSONparses(ls[k]) THEN [ok |-> TRUE, value |-> JSONparse(ls[k])]
    ELSE [ok |-> FALSE, value |-> NoValue]

\* Mutant: the initializer persists the fallback when the key has no entry.
useStateInitializerPersistsFallback(ls, k, init, getOk) ==
    LET item == readItem(ls, k, init, getOk) IN
    IF item.ok
    THEN Run(IF Truthy(ls[k]) THEN <<EvGet(k, TRUE)>>
             ELSE <<EvGet(k, TRUE), EvSet(k, JSONstringify(init), TRUE)>>,
             item.value, FALSE, "state")
    ELSE Run(<<EvGet(k, getOk), EvLog(k)>>, init, FALSE, "state")

\* Mutant: getItem is called outside the try block.
useStateInitializerUnguarded(ls, k, init, getOk) ==
    LET item == readItem(ls, k, init, getOk) IN
    IF ~getOk
    THEN Run(<<EvGet(k, FALSE)>>, NoValue, TRUE, "state")
    ELSE IF item.ok
    THEN Run(<<EvGet(k, TRUE)>>, item.value, FALSE, "state")
    ELSE Run(<<EvGet(k, TRUE), EvLog(k)>>, init, FALSE, "state")

\* Lines 25-36: the useState initializer; value is the first state.
useStateInitializer(ls, k, init, getOk) ==
    LET item == readItem(ls, k, init, getOk) IN
    IF item.ok
    THEN Run(<<EvGet(k, TRUE)>>, item.value, FALSE, "state")
    ELSE Run(<<EvGet(k, getOk), EvLog(k)>>, init, FALSE, "state")

\* Mutant: the effect replaces an entry it cannot parse by the fallback.
useEffectSyncRepairs(ls, k, init, getOk) ==
    LET item == readItem(ls, k, init, getOk) IN
    IF item.ok
    THEN Run(<<EvGet(k, TRUE), EvCell(item.value)>>, item.value, FALSE, "undefined")
    ELSE Run(<<EvGet(k, getOk), EvLog(k), EvCell(init)>>
             \o (IF getOk THEN <<EvSet(k, JSONstringify(init), TRUE)>> ELSE <<>>),
             init, FALSE, "undefined")

\* Mutant: on a failed read the effect clears the state instead of falling
\* back to initialValue.
useEffectSyncClears(ls, k, init, getOk) ==
    LET item == readItem(ls, k, init, getOk) IN
    IF item.ok
    THEN Run(<<EvGet(k, TRUE), EvCell(item.value)>>, item.value, FALSE, "undefined")
    ELSE Run(<<EvGet(k, getOk), EvLog(k), EvCell(Null)>>, Null, FALSE, "undefined")

\* Mutant: the effect writes the entry it has parsed back, re-encoded.
useEffectSyncNormalises(ls, k, init, getOk) ==
    LET item == readItem(ls, k, init, getOk) IN
    IF item.ok
    THEN Run(<<EvGet(k, TRUE), EvCell(item.value)>>
             \o (IF Truthy(ls[k])
                 THEN <<EvSet(k, JSONstringify(item.value), TRUE)>> ELSE <<>>),
             item.value, FALSE, "undefined")
    ELSE Run(<<EvGet(k, getOk), EvLog(k), EvCell(init)>>, init, FALSE, "undefined")

\* Lines 56-64: the effect, run after a render whose key or initialValue changed.
useEffectSync(ls, k, init, getOk) ==
    LET item == readItem(ls, k, init, getOk) IN
    IF item.ok
    THEN Run(<<EvGet(k, TRUE), EvCell(item.value)>>, item.value, FALSE, "undefined")
    ELSE Run(<<EvGet(k, getOk), EvLog(k), EvCell(init)>>, init, FALSE, "undefined")

\* The updater functions a caller passes to setValue:
\*   inc  = (val) => ({ n: val.n + 1 })    (TypeError on null)
\*   boom = (val) => { throw ... }
Updaters == {"inc", "boom"}

UpdaterReturns(f, v) == f = "inc" /\ v.t = "obj"

UpdaterResult(f, v) == Obj(v.n + 1, 0)

\* An argument of setValue: a literal of T or an updater.
Args == [fn : {FALSE}, f : {"literal"}, v : Literals]
        \cup [fn : {TRUE}, f : Updaters, v : {NoValue}]

\* Mutant: setItem is given String(value) instead of JSON.stringify(value).
setValueUnencoded(stored, k, arg, setOk) ==
    IF arg.fn /\ ~UpdaterReturns(arg.f, stored)
    THEN Run(<<EvLog(k)>>, NoValue, FALSE, "undefined")
    ELSE LET valueToStore == IF arg.fn THEN UpdaterResult(arg.f, stored) ELSE arg.v
             text == IF valueToStore.t = "null" THEN "null" ELSE "[object Object]"
         IN IF setOk
            THEN Run(<<EvCell(valueToStore), EvSet(k, text, TRUE)>>,
                     valueToStore, FALSE, "undefined")
            ELSE Run(<<EvCell(valueToStore), EvSet(k, text, FALSE), EvLog(k)>>,
                     valueToStore, FALSE, "undefined")

\* Mutant: setItem is given the encoding of storedValue, not of valueToStore.
setValuePersistsStale(stored, k, arg, setOk) ==
    IF arg.fn /\ ~UpdaterReturns(arg.f, stored)
    THEN Run(<<EvLog(k)>>, NoValue, FALSE, "undefined")
    ELSE LET valueToStore == IF arg.fn THEN UpdaterResult(arg.f, stored) ELSE arg.v
             text == JSONstringify(stored)
         IN IF setOk
            THEN Run(<<EvCell(valueToStore), EvSet(k, text, TRUE)>>,
                     valueToStore, FALSE, "undefined")
            ELSE Run(<<EvCell(valueToStore), EvSet(k, text, FALSE), EvLog(k)>>,
                     valueToStore, FALSE, "undefined")

\* Mutant: setItem is called before setStoredValue, so that a setItem that
\* throws skips the state update.
setValueSetItemFirst(stored, k, arg, setOk) ==
    IF arg.fn /\ ~UpdaterReturns(arg.f, stored)
    THEN Run(<<EvLog(k)>>, NoValue, FALSE, "undefined")
    ELSE LET valueToStore == IF arg.fn THEN UpdaterResult(arg.f, stored) ELSE arg.v
             text == JSONstringify(valueToStore)
         IN IF setOk
            THEN Run(<<EvSet(k, text, TRUE), EvCell(valueToStore)>>,
                     valueToStore, FALSE, "undefined")
            ELSE Run(<<EvSet(k, text, FALSE), EvLog(k)>>,
                     valueToStore, FALSE, "undefined")

\* Mutant: the catch block logs and throws the error again.
setValueRethrows(stored, k, arg, setOk) ==
    IF arg.fn /\ ~UpdaterReturns(arg.f, stored)
    THEN Run(<<EvLog(k)>>, NoValue, TRUE, "undefined")
    ELSE LET valueToStore == IF arg.fn THEN UpdaterResult(arg.f, stored) ELSE arg.v
             text == JSONstringify(valueToStore)
         IN IF setOk
            THEN Run(<<EvCell(valueToStore), EvSet(k, text, TRUE)>>,
                     valueToStore, FALSE, "undefined")
            ELSE Run(<<EvCell(valueToStore), EvSet(k, text, FALSE), EvLog(k)>>,
                     valueToStore, TRUE, "undefined")

\* Mutant: a setItem that throws is tried a second time.
setValueRetries(stored, k, arg, setOk) ==
    IF arg.fn /\ ~UpdaterReturns(arg.f, stored)
    THEN Run(<<EvLog(k)>>, NoValue, FALSE, "undefined")
    ELSE LET valueToStore == IF arg.fn THEN UpdaterResult(arg.f, stored) ELSE arg.v
             text == JSONstringify(valueToStore)
         IN IF setOk
            THEN Run(<<EvCell(valueToStore), EvSet(k, text, TRUE)>>,
                     valueToStore, FALSE, "undefined")
            ELSE Run(<<EvCell(valueToStore), EvSet(k, text, FALSE),
                       EvSet(k, text, FALSE), EvLog(k)>>,
                     valueToStore, FALSE, "undefined")

\* Mutant: setStoredValue is called only once the setItem attempt has
\* resolved, with success or with the error caught.
setValueCommitsAfterPersist(stored, k, arg, setOk) ==
    IF arg.fn /\ ~UpdaterReturns(arg.f, stored)
    THEN Run(<<EvLog(k)>>, NoValue, FALSE, "undefined")
    ELSE LET valueToStore == IF arg.fn THEN UpdaterResult(arg.f, stored) ELSE arg.v
             text == JSONstringify(valueToStore)
         IN IF setOk
            THEN Run(<<EvSet(k, text, TRUE), EvCell(valueToStore)>>,
                     valueToStore, FALSE, "undefined")
            ELSE Run(<<EvSet(k, text, FALSE), EvLog(k), EvCell(valueToStore)>>,
                     valueToStore, FALSE, "undefined")

\* Mutant: setItem is called only when the key has no entry yet.
setValueInsertOnly(stored, k, arg, setOk) ==
    IF arg.fn /\ ~UpdaterReturns(arg.f, stored)
    THEN Run(<<EvLog(k)>>, NoValue, FALSE, "undefined")
    ELSE LET valueToStore == IF arg.fn THEN UpdaterResult(arg.f, stored) ELSE arg.v
             text == JSONstringify(valueToStore)
         IN IF localStorage[k] # NoItem
            THEN Run(<<EvCell(valueToStore)>>, valueToStore, FALSE, "undefined")
            ELSE IF setOk
            THEN Run(<<EvCell(valueToStore), EvSet(k, text, TRUE)>>,
                     valueToStore, FALSE, "undefined")
            ELSE Run(<<EvCell(valueToStore), EvSet(k, text, FALSE), EvLog(k)>>,
                     valueToStore, FALSE, "undefined")

\* Mutant: the updater is called before the try block.
setValueUpdaterUnguarded(stored, k, arg, setOk) ==
    IF arg.fn /\ ~UpdaterReturns(arg.f, stored)
    THEN Run(<<>>, NoValue, TRUE, "undefined")
    ELSE LET valueToStore == IF arg.fn THEN UpdaterResult(arg.f, stored) ELSE arg.v
             text == JSONstringify(valueToStore)
         IN IF setOk
            THEN Run(<<EvCell(valueToStore), EvSet(k, text, TRUE)>>,
                     valueToStore, FALSE, "undefined")
            ELSE Run(<<EvCell(valueToStore), EvSet(k, text, FALSE), EvLog(k)>>,
                     valueToStore, FALSE, "undefined")

\* Lines 39-53: setValue(value), with the storedValue and key of the render
\* that built it.
setValue(stored, k, arg, setOk) ==
    IF arg.fn /\ ~UpdaterReturns(arg.f, stored)
    THEN Run(<<EvLog(k)>>, NoValue, FALSE, "undefined")
    ELSE LET valueToStore == IF arg.fn THEN UpdaterResult(arg.f, stored) ELSE arg.v
             text == JSONstringify(valueToStore)
         IN IF setOk
            THEN Run(<<EvCell(valueToStore), EvSet(k, text, TRUE)>>,
                     valueToStore, FALSE, "undefined")
            ELSE Run(<<EvCell(valueToStore), EvSet(k, text, FALSE), EvLog(k)>>,
                     valueToStore, FALSE, "undefined")

\* ------------------------------------------------- effects of a handler

\* The state cell after the setStoredValue calls of a run, in order.
RECURSIVE CellAfter(_, _)
CellAfter(cell, events) ==
    IF events = <<>> THEN cell
    ELSE CellAfter(IF Head(events).e = "setStoredValue" THEN Head(events).v ELSE cell,
                   Tail(events))

\* Whether React schedules a render for the setStoredValue calls of a run: it
\* bails out of an update that is Object.is the state when none is queued.
RECURSIVE RenderAfter(_, _, _)
RenderAfter(pending, cell, events) ==
    IF events = <<>> THEN pending
    ELSE LET ev == Head(events) IN
         IF ev.e = "setStoredValue"
         THEN RenderAfter(pending \/ ~ObjectIs(ev.v, cell), ev.v, Tail(events))
         ELSE RenderAfter(pending, cell, Tail(events))

\* window.localStorage after the setItem calls of a run that did not throw.
RECURSIVE StorageAfter(_, _)
StorageAfter(ls, events) ==
    IF events = <<>> THEN ls
    ELSE LET ev == Head(events) IN
         StorageAfter(IF ev.e = "setItem" /\ ev.ok
                      THEN [ls EXCEPT ![ev.k] = ev.t] ELSE ls,
                      Tail(events))

\* The record of a step: which handler ran, for which binding, with which
\* argument, what it called and how it ended; batched: a setValue call that
\* follows another setValue call of the binding with no step in between;
\* after: the binding whose setValue call, with its setItem done, is the step
\* right before this setValue call.
Step(op, b, arg, run) ==
    [op |-> op, b |-> b, arg |-> arg, value |-> run.value,
     events |-> run.events, threw |-> run.threw, ret |-> run.ret,
     batched |-> (op = "write" /\ last.op = "write" /\ last.b = b),
     after |-> IF /\ op = "write" /\ last.op = "write"
                  /\ \E i \in Calls(last.events, "setItem") : last.events[i].ok
               THEN last.b ELSE "none"]

NoArg == [fn |-> FALSE, f |-> "none", v |-> NoValue]
NoRun == Run(<<>>, NoValue, FALSE, "none")

\* ------------------------------------------------------------------- Init

Init ==
    /\ localStorage \in [Keys -> Texts \cup {NoItem}]
    /\ mounted = [b \in Bindings |-> FALSE]
    /\ key = [b \in Bindings |-> "user"]
    /\ firstKey = [b \in Bindings |-> "user"]
    /\ initialValue = [b \in Bindings |-> Obj(0, 1)]
    /\ hookState = [b \in Bindings |-> NoValue]
    /\ storedValue = [b \in Bindings |-> NoValue]
    /\ needsRender = [b \in Bindings |-> FALSE]
    /\ effectPending = [b \in Bindings |-> FALSE]
    /\ persisted = [k \in Keys |-> NoValue]
    /\ NoForm
    /\ last = [op |-> "init", b |-> "A", arg |-> NoArg, value |-> NoValue,
               events |-> <<>>, threw |-> FALSE, ret |-> "none",
               batched |-> FALSE, after |-> "none"]

\* ---------------------------------------------------------------- actions

\* First render of a component that calls useLocalStorage(k, init): the
\* useState initializer runs and the effect is scheduled (lines 25-36, 56).
Mount(b, k, init) ==
    /\ ~mounted[b]
    /\ \E getOk \in BOOLEAN :
         LET run == useStateInitializer(localStorage, k, init, getOk) IN
         /\ mounted' = [mounted EXCEPT ![b] = ~run.threw]
         /\ key' = [key EXCEPT ![b] = k]
         /\ firstKey' = [firstKey EXCEPT ![b] = k]
         /\ initialValue' = [initialValue EXCEPT ![b] = init]
         /\ hookState' = [hookState EXCEPT ![b] = run.value]
         /\ storedValue' = [storedValue EXCEPT ![b] = run.value]
         /\ effectPending' = [effectPending EXCEPT ![b] = ~run.threw]
         /\ localStorage' = StorageAfter(localStorage, run.events)
         /\ last' = Step("mount", b, NoArg, run)
    /\ UNCHANGED formVars
    /\ UNCHANGED <<needsRender, persisted>>

\* Mutant: the effect closes over the key of the first render.
RunEffectFirstKey(b) ==
    /\ mounted[b] /\ effectPending[b]
    /\ \E getOk \in BOOLEAN :
         LET run == useEffectSync(localStorage, firstKey[b], initialValue[b], getOk) IN
         /\ hookState' = [hookState EXCEPT ![b] = CellAfter(hookState[b], run.events)]
         /\ needsRender' = [needsRender EXCEPT
                ![b] = RenderAfter(needsRender[b], hookState[b], run.events)]
         /\ localStorage' = StorageAfter(localStorage, run.events)
         /\ last' = Step("effect", b, NoArg, run)
    /\ effectPending' = [effectPending EXCEPT ![b] = FALSE]
    /\ UNCHANGED formVars
    /\ UNCHANGED <<mounted, key, firstKey, initialValue, storedValue, persisted>>

\* The effect of the last render runs (lines 56-64); React runs it before it
\* renders the component again or handles the next event.
RunEffect(b) ==
    /\ mounted[b] /\ effectPending[b]
    /\ \E getOk \in BOOLEAN :
         LET run == useEffectSync(localStorage, key[b], initialValue[b], getOk) IN
         /\ hookState' = [hookState EXCEPT ![b] = CellAfter(hookState[b], run.events)]
         /\ needsRender' = [needsRender EXCEPT
                ![b] = RenderAfter(needsRender[b], hookState[b], run.events)]
         /\ localStorage' = StorageAfter(localStorage, run.events)
         /\ last' = Step("effect", b, NoArg, run)
    /\ effectPending' = [effectPending EXCEPT ![b] = FALSE]
    /\ UNCHANGED formVars
    /\ UNCHANGED <<mounted, key, firstKey, initialValue, storedValue, persisted>>

\* What a render with the arguments k and init schedules: the effect, when
\* one of its dependencies [key, initialValue] is not Object.is the one of
\* the render before (line 64), and which of the two changed.
Scheduled(b, k, init) ==
    IF k # key[b] THEN "effect: key"
    ELSE IF ~ObjectIs(init, initialValue[b]) THEN "effect: initialValue"
    ELSE "no effect"

\* The component renders again, because its state changed or its parent
\* rendered, with the arguments k and init: storedValue is the state cell, and
\* the effect is scheduled when a dependency changed (line 64).
Render(b, k, init) ==
    /\ mounted[b] /\ ~effectPending[b]
    /\ storedValue' = [storedValue EXCEPT ![b] = hookState[b]]
    /\ key' = [key EXCEPT ![b] = k]
    /\ initialValue' = [initialValue EXCEPT ![b] = init]
    /\ needsRender' = [needsRender EXCEPT ![b] = FALSE]
    /\ effectPending' = [effectPending EXCEPT
           ![b] = k # key[b] \/ ~ObjectIs(init, initialValue[b])]
    /\ last' = Step("render", b, NoArg, Run(<<>>, NoValue, FALSE, Scheduled(b, k, init)))
    /\ UNCHANGED formVars
    /\ UNCHANGED <<localStorage, mounted, firstKey, hookState, persisted>>

\* Mutant: a setValue call also updates the state cell of every other mounted
\* binding of the same key, as a storage-event subscription would.
WriteBroadcasts(b, arg) ==
    /\ mounted[b] /\ ~effectPending[b]
    /\ needsRender[b] => (last.op = "write" /\ last.b = b)
    /\ (arg.fn /\ UpdaterReturns(arg.f, storedValue[b])) => storedValue[b].n < MaxNum
    /\ \E setOk \in BOOLEAN :
         LET run == setValue(storedValue[b], key[b], arg, setOk) IN
         /\ hookState' = [c \in DOMAIN hookState |->
                IF c = b \/ (mounted[c] /\ key[c] = key[b])
                THEN CellAfter(hookState[c], run.events) ELSE hookState[c]]
         /\ needsRender' = [needsRender EXCEPT
                ![b] = RenderAfter(needsRender[b], hookState[b], run.events)]
         /\ localStorage' = StorageAfter(localStorage, run.events)
         /\ persisted' = [k \in Keys |->
                IF \E i \in Calls(run.events, "setItem") :
                       run.events[i].k = k /\ run.events[i].ok
                THEN run.value ELSE persisted[k]]
         /\ last' = Step("write", b, arg, run)
    /\ UNCHANGED formVars
    /\ UNCHANGED <<mounted, key, firstKey, initialValue, storedValue,
                   effectPending>>

\* A caller invokes the setValue of the last render (lines 39-53).  React
\* renders a component whose state changed before it handles the next event,
\* so a call finds a render pending only when it follows another call of the
\* same event handler.
Write(b, arg) ==
    /\ mounted[b] /\ ~effectPending[b]
    /\ needsRender[b] => (last.op = "write" /\ last.b = b)
    /\ (arg.fn /\ UpdaterReturns(arg.f, storedValue[b])) => storedValue[b].n < MaxNum
    /\ \E setOk \in BOOLEAN :
         LET run == setValue(storedValue[b], key[b], arg, setOk) IN
         /\ hookState' = [hookState EXCEPT ![b] = CellAfter(hookState[b], run.events)]
         /\ needsRender' = [needsRender EXCEPT
                ![b] = RenderAfter(needsRender[b], hookState[b], run.events)]
         /\ localStorage' = StorageAfter(localStorage, run.events)
         /\ persisted' = [k \in Keys |->
                IF \E i \in Calls(run.events, "setItem") :
                       run.events[i].k = k /\ run.events[i].ok
                THEN run.value ELSE persisted[k]]
         /\ last' = Step("write", b, arg, run)
    /\ UNCHANGED formVars
    /\ UNCHANGED <<mounted, key, firstKey, initialValue, storedValue,
                   effectPending>>

\* The component is unmounted: the binding and its state are gone; nothing is
\* removed from localStorage.
Unmount(b) ==
    /\ mounted[b]
    /\ mounted' = [mounted EXCEPT ![b] = FALSE]
    /\ key' = [key EXCEPT ![b] = "user"]
    /\ firstKey' = [firstKey EXCEPT ![b] = "user"]
    /\ initialValue' = [initialValue EXCEPT ![b] = Obj(0, 1)]
    /\ hookState' = [hookState EXCEPT ![b] = NoValue]
    /\ storedValue' = [storedValue EXCEPT ![b] = NoValue]
    /\ needsRender' = [needsRender EXCEPT ![b] = FALSE]
    /\ effectPending' = [effectPending EXCEPT ![b] = FALSE]
    /\ last' = Step("unmount", b, NoArg, NoRun)
    /\ UNCHANGED formVars
    /\ UNCHANGED <<localStorage, persisted>>

\* Someone other than the hook (another tab, another script, the user)
\* replaces or removes the entry of a key.
ExternalChange(k, text) ==
    /\ localStorage[k] # text
    /\ localStorage' = [localStorage EXCEPT ![k] = text]
    /\ persisted' = [persisted EXCEPT ![k] = NoValue]
    /\ last' = Step("external", "A", NoArg, NoRun)
    /\ UNCHANGED formVars
    /\ UNCHANGED <<mounted, key, firstKey, initialValue, hookState,
                   storedValue, needsRender, effectPending>>

Next ==
    \/ \E b \in Bindings, k \in Keys, init \in InitialValues : Mount(b, k, init)
    \/ \E b \in Bindings : RunEffect(b)
    \/ \E b \in Bindings, k \in Keys, init \in InitialValues : Render(b, k, init)
    \/ \E b \in Bindings, arg \in Args : Write(b, arg)
    \/ \E b \in Bindings : Unmount(b)
    \/ \E k \in Keys, text \in Texts \cup {NoItem} : ExternalChange(k, text)

Spec == Init /\ [][Next]_vars

\* The documented usage (lines 9-18): the component passes an object literal
\* as initialValue, so every render builds an equal object with a new
\* identity.
Fresh(init) == Obj(init.n, IF init.r = 1 THEN 2 ELSE 1)

\* React renders the component again because its state changed; the call
\* has the same key and the literal evaluated again.
Rerender(b) ==
    /\ needsRender[b]
    /\ Render(b, key[b], Fresh(initialValue[b]))

NextFresh ==
    \/ \E b \in Bindings, k \in Keys, init \in InitialValues : Mount(b, k, init)
    \/ \E b \in Bindings : RunEffect(b)
    \/ \E b \in Bindings : Rerender(b)

\* React runs every effect it has scheduled and renders every component
\* whose state changed.
FairFresh ==
    \A b \in Bindings : WF_vars(RunEffect(b)) /\ WF_vars(Rerender(b))

SpecFresh == Init /\ [][NextFresh]_vars /\ FairFresh

\* Two components that are mounted side by side and call
\* useLocalStorage("user", init) with the same arguments on every render;
\* localStorage starts empty and only the hook writes to it.
TwoBindings == {"A", "B"}

InitTwo ==
    /\ localStorage = [k \in Keys |-> NoItem]
    /\ mounted = [b \in TwoBindings |-> FALSE]
    /\ key = [b \in TwoBindings |-> "user"]
    /\ firstKey = [b \in TwoBindings |-> "user"]
    /\ initialValue = [b \in TwoBindings |-> Obj(0, 1)]
    /\ hookState = [b \in TwoBindings |-> NoValue]
    /\ storedValue = [b \in TwoBindings |-> NoValue]
    /\ needsRender = [b \in TwoBindings |-> FALSE]
    /\ effectPending = [b \in TwoBindings |-> FALSE]
    /\ persisted = [k \in Keys |-> NoValue]
    /\ NoForm
    /\ last = [op |-> "init", b |-> "A", arg |-> NoArg, value |-> NoValue,
               events |-> <<>>, threw |-> FALSE, ret |-> "none",
               batched |-> FALSE, after |-> "none"]

NextTwo ==
    \/ \E b \in TwoBindings : Mount(b, "user", Obj(0, 1))
    \/ \E b \in TwoBindings : RunEffect(b)
    \/ \E b \in TwoBindings : Render(b, key[b], initialValue[b])
    \/ \E b \in TwoBindings, arg \in Args : Write(b, arg)
    \/ \E b \in TwoBindings : Unmount(b)

SpecTwo == InitTwo /\ [][NextTwo]_vars

\* ------------------------------------------- LoginPage and RegisterPage

MaxSubmits == 2

IsSpace(c) == c = " "

\* !str.trim(): the string is empty or all white space.
Blank(str) == \A i \in 1..Len(str) : IsSpace(str[i])

\* /\S+@\S+\.\S+/.test(str): somewhere in str, a non-space, "@", one or
\* more non-spaces, ".", a non-space.
EmailPattern(str) ==
    \E i, j \in 1..Len(str) :
        /\ 1 < i /\ i + 1 < j /\ j < Len(str)
        /\ ~IsSpace(str[i - 1]) /\ str[i] = "@"
        /\ \A m \in (i + 1)..(j - 1) : ~IsSpace(str[m])
        /\ str[j] = "." /\ ~IsSpace(str[j + 1])

\* newErrors as validateForm builds it from the formData and acceptTerms of
\* the render; LoginPage checks email and password only.
validateForm(p, data, terms) ==
    [f \in Fields |->
        CASE f = "name" ->
               IF p = "register" /\ Blank(data.name)
               THEN "Nome e obrigatorio" ELSE ""
          [] f = "email" ->
               IF data.email = EmptyString THEN "Email e obrigatorio"
               ELSE IF ~EmailPattern(data.email) THEN "Email invalido"
               ELSE ""
          [] f = "password" ->
               IF data.password = EmptyString THEN "Senha e obrigatoria"
               ELSE IF Len(data.password) < 6
               THEN "Senha deve ter pelo menos 6 caracteres"
               ELSE ""
          [] f = "confirmPassword" ->
               IF p = "register" /\ data.password # data.confirmPassword
               THEN "As senhas nao conferem" ELSE ""
          [] f = "general" ->
               IF p = "register" /\ ~terms
               THEN "Voce deve aceitar os termos e condicoes para continuar"
               ELSE ""]

\* Object.keys(newErrors).length === 0
IsValid(newErrors) == \A f \in Fields : newErrors[f] = ""

\* The message of the catch block.
Failure(p) ==
    [NoErrors EXCEPT !["general"] =
        IF p = "login" THEN "Falha na autenticacao. Verifique seu email e senha."
        ELSE "Falha no cadastro. Por favor, tente novamente."]

\* The success callback of a page.
Callback(p) == IF p = "login" THEN "onLogin" ELSE "onRegister"

\* Where a page navigates after the callback.
Target(p) == IF p = "login" THEN "/" ELSE "/login?registered=true"

\* A call of a handler of the page; ok: it returned.
FormEv(e, arg, ok) == [e |-> e, arg |-> arg, ok |-> ok]

FormCalls(events, e) == {i \in 1..Len(events) : events[i].e = e}

\* Mutant: Button does not pass a disabled attribute to the <button>.
ButtonNeverDisabled(disabled, isLoading) == FALSE

\* Button (part_002 line 64): the disabled attribute of the <button>.
Button(disabled, isLoading) == disabled \/ isLoading

\* The submit Button as the page renders it.
SubmitDisabled ==
    IF page = "login" THEN Button(isSubmitting, isSubmitting)
    ELSE Button(isSubmitting \/ ~acceptTerms, isSubmitting)

\* Mutant: handleSubmit ignores what validateForm returned.
handleSubmitUnchecked(p, data, terms) ==
    LET newErrors == validateForm(p, data, terms) IN
    [valid |-> TRUE, waits |-> TRUE,
     events |-> <<FormEv("setErrors", newErrors, TRUE),
                  FormEv("setIsSubmitting", TRUE, TRUE)>>]

\* handleSubmit up to its await: validateForm, and setIsSubmitting(true)
\* when it returned true; waits: the run goes on after the timer.
handleSubmit(p, data, terms) ==
    LET newErrors == validateForm(p, data, terms) IN
    IF ~IsValid(newErrors)
    THEN [valid |-> FALSE, waits |-> FALSE,
          events |-> <<FormEv("setErrors", newErrors, TRUE)>>]
    ELSE [valid |-> TRUE, waits |-> TRUE,
          events |-> <<FormEv("setErrors", newErrors, TRUE),
                       FormEv("setIsSubmitting", TRUE, TRUE)>>]

\* What can happen after the await: all calls return, the callback throws,
\* or navigate throws.
Outcomes == {"done", "callback throws", "navigate throws"}

\* Mutant: no finally block; setIsSubmitting(false) follows navigate in the
\* try block.
resumeSubmitNoFinally(p, data, outcome) ==
    LET user == IF p = "login" THEN [email |-> data.email]
                ELSE [name |-> data.name, email |-> data.email]
    IN CASE outcome = "done" ->
              <<FormEv(Callback(p), user, TRUE), FormEv("navigate", Target(p), TRUE),
                FormEv("setIsSubmitting", FALSE, TRUE)>>
         [] outcome = "callback throws" ->
              <<FormEv(Callback(p), user, FALSE),
                FormEv("setErrors", Failure(p), TRUE)>>
         [] outcome = "navigate throws" ->
              <<FormEv(Callback(p), user, TRUE), FormEv("navigate", Target(p), FALSE),
                FormEv("setErrors", Failure(p), TRUE)>>

\* handleSubmit after its await: the callback, navigate, the catch block
\* when one of them threw, and the finally block.
resumeSubmit(p, data, outcome) ==
    LET user == IF p = "login" THEN [email |-> data.email]
                ELSE [name |-> data.name, email |-> data.email]
    IN CASE outcome = "done" ->
              <<FormEv(Callback(p), user, TRUE), FormEv("navigate", Target(p), TRUE),
                FormEv("setIsSubmitting", FALSE, TRUE)>>
         [] outcome = "callback throws" ->
              <<FormEv(Callback(p), user, FALSE),
                FormEv("setErrors", Failure(p), TRUE),
                FormEv("setIsSubmitting", FALSE, TRUE)>>
         [] outcome = "navigate throws" ->
              <<FormEv(Callback(p), user, TRUE), FormEv("navigate", Target(p), FALSE),
                FormEv("setErrors", Failure(p), TRUE),
                FormEv("setIsSubmitting", FALSE, TRUE)>>

\* The errors and isSubmitting states after the calls of a run, in order.
RECURSIVE ErrorsAfter(_, _)
ErrorsAfter(errs, events) ==
    IF events = <<>> THEN errs
    ELSE ErrorsAfter(IF Head(events).e = "setErrors" THEN Head(events).arg ELSE errs,
                     Tail(events))

RECURSIVE SubmittingAfter(_, _)
SubmittingAfter(flag, events) ==
    IF events = <<>> THEN flag
    ELSE SubmittingAfter(IF Head(events).e = "setIsSubmitting"
                         THEN Head(events).arg ELSE flag,
                         Tail(events))

hookVars == <<localStorage, mounted, key, firstKey, initialValue, hookState,
              storedValue, needsRender, effectPending, persisted, last>>

\* A page is shown for the first time; no component uses the hook.
InitForm ==
    /\ localStorage = [k \in Keys |-> NoItem]
    /\ mounted = [b \in Bindings |-> FALSE]
    /\ key = [b \in Bindings |-> "user"]
    /\ firstKey = [b \in Bindings |-> "user"]
    /\ initialValue = [b \in Bindings |-> Obj(0, 1)]
    /\ hookState = [b \in Bindings |-> NoValue]
    /\ storedValue = [b \in Bindings |-> NoValue]
    /\ needsRender = [b \in Bindings |-> FALSE]
    /\ effectPending = [b \in Bindings |-> FALSE]
    /\ persisted = [k \in Keys |-> NoValue]
    /\ last = [op |-> "init", b |-> "A", arg |-> NoArg, value |-> NoValue,
               events |-> <<>>, threw |-> FALSE, ret |-> "none",
               batched |-> FALSE, after |-> "none"]
    /\ page \in Pages
    /\ formData = EmptyForm
    /\ acceptTerms = FALSE
    /\ errors = NoErrors
    /\ isSubmitting = FALSE
    /\ inFlight = <<>>
    /\ submits = 0
    /\ callbacks = 0
    /\ formStep = NoFormStep

\* The inputs of a page and what the user can type into them.
InputsOf(p, f) ==
    CASE f = "name" -> IF p = "register" THEN NameInputs ELSE {}
      [] f = "email" -> EmailInputs
      [] f = "password" -> PasswordInputs
      [] f = "confirmPassword" -> IF p = "register" THEN PasswordInputs ELSE {}
      [] f = "general" -> {}

\* handleChange: the user edits the input named f; a message of that field
\* is cleared.
Change(f, value) ==
    /\ value \in InputsOf(page, f)
    /\ formData[f] # value
    /\ formData' = [formData EXCEPT ![f] = value]
    /\ errors' = IF errors[f] # "" THEN [errors EXCEPT ![f] = ""] ELSE errors
    /\ formStep' = [op |-> "change", valid |-> FALSE, events |-> <<>>,
                    data |-> formData, terms |-> acceptTerms]
    /\ UNCHANGED <<page, acceptTerms, isSubmitting, inFlight, submits, callbacks>>
    /\ UNCHANGED hookVars

\* The user ticks or unticks the terms checkbox of RegisterPage.
ToggleTerms ==
    /\ page = "register"
    /\ acceptTerms' = ~acceptTerms
    /\ formStep' = [op |-> "terms", valid |-> FALSE, events |-> <<>>,
                    data |-> formData, terms |-> acceptTerms]
    /\ UNCHANGED <<page, formData, errors, isSubmitting, inFlight, submits,
                   callbacks>>
    /\ UNCHANGED hookVars

\* The user submits the form, with the submit button or the Enter key: the
\* browser does neither while the button is disabled.  handleSubmit runs up
\* to its await and React renders the page.
Submit ==
    /\ ~SubmitDisabled
    /\ submits < MaxSubmits
    /\ LET run == handleSubmit(page, formData, acceptTerms) IN
       /\ errors' = ErrorsAfter(errors, run.events)
       /\ isSubmitting' = SubmittingAfter(isSubmitting, run.events)
       /\ inFlight' = IF run.waits
                      THEN Append(inFlight, [data |-> formData, terms |-> acceptTerms])
                      ELSE inFlight
       /\ submits' = IF run.valid THEN submits + 1 ELSE submits
       /\ formStep' = [op |-> "submit", valid |-> run.valid,
                       events |-> run.events, data |-> formData,
                       terms |-> acceptTerms]
    /\ UNCHANGED <<page, formData, acceptTerms, callbacks>>
    /\ UNCHANGED hookVars

\* The timer of the oldest waiting handleSubmit run fires and the run goes
\* on to its end, with the formData and acceptTerms of the render that
\* started it.
Settle(outcome) ==
    /\ inFlight # <<>>
    /\ LET data == Head(inFlight).data
           events == resumeSubmit(page, data, outcome)
       IN /\ errors' = ErrorsAfter(errors, events)
          /\ isSubmitting' = SubmittingAfter(isSubmitting, events)
          /\ callbacks' = callbacks + Cardinality(FormCalls(events, Callback(page)))
          /\ formStep' = [op |-> "settle", valid |-> TRUE, events |-> events,
                          data |-> data, terms |-> Head(inFlight).terms]
    /\ inFlight' = Tail(inFlight)
    /\ UNCHANGED <<page, formData, acceptTerms, submits>>
    /\ UNCHANGED hookVars

NextForm ==
    \/ \E f \in Fields, value \in NameInputs \cup EmailInputs \cup PasswordInputs :
          Change(f, value)
    \/ ToggleTerms
    \/ Submit
    \/ \E outcome \in Outcomes : Settle(outcome)

\* setTimeout fires: a waiting run is resumed.
FairForm == WF_vars(\E outcome \in Outcomes : Settle(outcome))

SpecForm == InitForm /\ [][NextForm]_vars /\ FairForm

\* ------------------------------------------------------- reading a step

\* current: the value of the reactive cell of binding b.
current(b) == hookState[b]

SetSucceeded(step) ==
    \E i \in Calls(step.events, "setItem") : step.events[i].ok

SetFailed(step) ==
    \E i \in Calls(step.events, "setItem") : ~step.events[i].ok

GetFailed(step) ==
    \E i \in Calls(step.events, "getItem") : ~step.events[i].ok

Logged(step) == Calls(step.events, "console.error") # {}

\* A hydration: the useState initializer at construction, or the effect.
Hydration(step) == step.op \in {"mount", "effect"}

\* The value a write call asks for: its literal, or its updater applied to
\* the value the caller read (storedValue is not changed by the call).
Requested(step) ==
    IF step.arg.fn
    THEN UpdaterResult(step.arg.f, storedValue[step.b])
    ELSE step.arg.v

\* The slot of key k decodes to a value deep-equal to v.
DecodesTo(k, v) ==
    /\ Truthy(localStorage[k])
    /\ JSONparses(localStorage[k])
    /\ SameValue(JSONparse(localStorage[k]), v)

\* ------------------------------------------------------------------ claims

\* C1 (round trip): when setValue(V) has stored V under key K (setItem did
\* not throw) and the entry is still the one it stored, a binding constructed
\* for K whose getItem does not throw hydrates (initializer, then effect) to
\* a current value deep-equal to V, whatever object it is given as fallback.
C1_RoundTrip ==
    \A b \in Bindings :
        (/\ mounted[b]
         /\ Hydration(last) /\ last.b = b /\ ~GetFailed(last)
         /\ persisted[key[b]] # NoValue)
        => SameValue(current(b), persisted[key[b]])

\* A binding constructed after the write hydrated to a value that is not
\* the fallback's.
C1_Witness ==
    /\ mounted["A"] /\ last.op = "mount" /\ ~GetFailed(last)
    /\ persisted[key["A"]] # NoValue
    /\ ~SameValue(persisted[key["A"]], initialValue["A"])
    /\ SameValue(current("A"), persisted[key["A"]])

\* C2 (mirroring, I1): in the state right after a write whose setItem did
\* not throw, current is deep-equal to the requested value and the slot of
\* the binding's key decodes to a value deep-equal to it.
C2_Mirroring ==
    (last.op = "write" /\ SetSucceeded(last))
    => /\ SameValue(current(last.b), Requested(last))
       /\ DecodesTo(key[last.b], Requested(last))

C2_Witness ==
    /\ last.op = "write" /\ SetSucceeded(last)
    /\ ~SameValue(Requested(last), initialValue[last.b])
    /\ SameValue(current(last.b), Requested(last))
    /\ DecodesTo(key[last.b], Requested(last))

\* C3 (no rollback): a write whose setItem throws leaves current at the
\* requested value and every slot with the content it had before the call;
\* a render that follows at once returns the requested value as storedValue.
C3_NoRollback ==
    [][/\ (last'.op = "write" /\ SetFailed(last'))
          => /\ SameValue(hookState'[last'.b], Requested(last'))
             /\ localStorage' = localStorage
       /\ (last.op = "write" /\ SetFailed(last)
           /\ last'.op = "render" /\ last'.b = last.b)
          => SameValue(storedValue'[last.b], Requested(last))]_vars

\* A failed write left memory at the new value and the slot at another one.
C3_Witness ==
    /\ last.op = "write" /\ SetFailed(last)
    /\ SameValue(current(last.b), Requested(last))
    /\ ~DecodesTo(key[last.b], Requested(last))

C5_WriteOrdering ==
    [][\A b \in Bindings :
        (/\ last.op = "write" /\ last.b = b /\ last.value # NoValue
         /\ last'.op = "write" /\ last'.b = b /\ last'.arg.fn
         /\ UpdaterReturns(last'.arg.f, current(b)))
        => SameValue(current(b)', UpdaterResult(last'.arg.f, current(b)))]_vars

\* C6 (fallback on empty, P2): a hydration of a key with no entry sets
\* current to the very object supplied as fallback and changes no slot; a
\* slot with no entry gets one only by a write call of a binding to that key
\* (or by someone other than the hook).
C6_FallbackOnEmpty ==
    [][/\ \A b \in Bindings :
            (Hydration(last') /\ last'.b = b /\ localStorage[key'[b]] = NoItem)
            => /\ current(b)' = initialValue'[b]
               /\ localStorage' = localStorage
       /\ \A k \in Keys :
            (localStorage[k] = NoItem /\ localStorage'[k] # NoItem)
            => \/ last'.op = "external"
               \/ last'.op = "write" /\ key[last'.b] = k]_vars

C6_Witness ==
    /\ Hydration(last) /\ mounted[last.b]
    /\ localStorage[key[last.b]] = NoItem
    /\ current(last.b) = initialValue[last.b]

\* C7 (fallback on corruption, P3): a hydration of a key whose slot holds a
\* string that does not parse sets current to the fallback and leaves every
\* slot as it was.
C7_FallbackOnCorruption ==
    [][\A b \in Bindings :
        (/\ Hydration(last') /\ last'.b = b
         /\ Truthy(localStorage[key'[b]]) /\ ~JSONparses(localStorage[key'[b]]))
        => /\ current(b)' = initialValue'[b]
           /\ localStorage' = localStorage]_vars

C7_Witness ==
    /\ Hydration(last) /\ mounted[last.b] /\ ~GetFailed(last)
    /\ localStorage[key[last.b]] \in Malformed
    /\ current(last.b) = initialValue[last.b]

\* C8 (backend unavailable on read): a hydration whose getItem throws ends
\* without a fault reaching the component, with current at the fallback and
\* a diagnostic, as on a decode failure.
C8_GetFailureRecovered ==
    (Hydration(last) /\ GetFailed(last))
    => /\ ~last.threw
       /\ mounted[last.b]
       /\ current(last.b) = initialValue[last.b]
       /\ Logged(last)

C8_Witness ==
    /\ Hydration(last) /\ GetFailed(last) /\ mounted[last.b]
    /\ Truthy(localStorage[key[last.b]]) /\ JSONparses(localStorage[key[last.b]])
    /\ current(last.b) = initialValue[last.b]

\* C9 as claimed: every write call makes exactly one setStoredValue call and
\* at most one setItem call, and no other step of the hook calls setItem.
C9_OneUpdatePerWrite ==
    /\ last.op = "write"
       => /\ Cardinality(Calls(last.events, "setStoredValue")) = 1
          /\ Cardinality(Calls(last.events, "setItem")) <= 1
    /\ last.op # "write" => Calls(last.events, "setItem") = {}

\* C9 as amended: a write call whose updater, if it has one, returns makes
\* exactly one setStoredValue call and at most one setItem call; a write call
\* whose updater raises makes neither; no other step of the hook calls
\* setItem.
C9_OneUpdatePerCompletedWrite ==
    /\ (last.op = "write"
        /\ (last.arg.fn => UpdaterReturns(last.arg.f, storedValue[last.b])))
       => /\ Cardinality(Calls(last.events, "setStoredValue")) = 1
          /\ Cardinality(Calls(last.events, "setItem")) <= 1
    /\ (last.op = "write"
        /\ last.arg.fn /\ ~UpdaterReturns(last.arg.f, storedValue[last.b]))
       => /\ Calls(last.events, "setStoredValue") = {}
          /\ Calls(last.events, "setItem") = {}
    /\ last.op # "write" => Calls(last.events, "setItem") = {}

C9_Witness ==
    /\ last.op = "write" /\ SetFailed(last)
    /\ Cardinality(Calls(last.events, "setStoredValue")) = 1
    /\ Cardinality(Calls(last.events, "setItem")) = 1

\* C10 (cell first): in a write, every setItem call comes after a
\* setStoredValue call for the value whose encoding it stores.
C10_CellBeforeSet ==
    last.op = "write"
    => \A i \in Calls(last.events, "setItem") :
         \E j \in Calls(last.events, "setStoredValue") :
            j < i /\ JSONstringify(last.events[j].v) = last.events[i].t

C10_Witness ==
    /\ last.op = "write"
    /\ Calls(last.events, "setItem") # {}
    /\ \A i \in Calls(last.events, "setItem") :
         \E j \in Calls(last.events, "setStoredValue") : j < i

\* C11 as claimed (no partial state, I2): in a write, current is set to a
\* value only after the setItem attempt for that value has resolved.
C11_SetResolvedBeforeCell ==
    last.op = "write"
    => \A j \in Calls(last.events, "setStoredValue") :
         \E i \in Calls(last.events, "setItem") :
            i < j /\ last.events[i].t = JSONstringify(last.events[j].v)

\* C11 as amended: in a write, current is set to the requested value before
\* the setItem attempt for that value is made, and so before it resolves;
\* the value set is the one the call requested and no other.
C11_CellSetBeforeSetAttempt ==
    last.op = "write"
    => \A j \in Calls(last.events, "setStoredValue") :
         /\ SameValue(last.events[j].v, Requested(last))
         /\ \A i \in Calls(last.events, "setItem") : j < i

\* A write set the cell and then made a setItem attempt that failed.
C11_Witness ==
    /\ last.op = "write" /\ SetFailed(last)
    /\ \E j \in Calls(last.events, "setStoredValue") :
         \E i \in Calls(last.events, "setItem") :
            j < i /\ SameValue(current(last.b), last.events[j].v)

\* C12 (updater reads memory): whenever current and the slot of the key
\* differ, a write of an updater f sets current to f applied to current, the
\* in-memory value, and not to f applied to what the slot decodes to.
C12_UpdaterReadsMemory ==
    [][\A b \in Bindings :
        (/\ last'.op = "write" /\ last'.b = b /\ last'.arg.fn
         /\ ~DecodesTo(key[b], current(b))
         /\ UpdaterReturns(last'.arg.f, current(b)))
        => SameValue(hookState'[b], UpdaterResult(last'.arg.f, current(b)))]_vars

\* C13 (last writer wins): after any sequence of literal writes on a
\* binding, current is the literal of the last call, and when no setItem of
\* that call failed the slot of the key decodes to it, whatever the calls
\* before it wrote.
C13_LastWriterWins ==
    (last.op = "write" /\ ~last.arg.fn)
    => /\ SameValue(current(last.b), last.arg.v)
       /\ ~SetFailed(last) => DecodesTo(key[last.b], last.arg.v)

\* The second of two calls in a row has replaced the value of the first in
\* memory and in the slot.
C13_Witness ==
    /\ last.op = "write" /\ last.batched /\ ~last.arg.fn /\ SetSucceeded(last)
    /\ ~SameValue(storedValue[last.b], last.arg.v)
    /\ SameValue(current(last.b), last.arg.v)
    /\ DecodesTo(key[last.b], last.arg.v)

\* C14 (frame): once a binding is hydrated, a step changes its current value
\* only if it is a write call on that binding.  Hydration steps are left out:
\* the effect after the first render and the effect after a render with a new
\* key; the step held against the claim is the effect that runs right after
\* a render with the same key.
C14_OnlyWriteChangesCurrent ==
    [][\A b \in Bindings :
        (/\ mounted[b] /\ mounted'[b]
         /\ ~SameValue(hookState'[b], hookState[b]))
        => \/ last'.op = "write" /\ last'.b = b
           \/ /\ last'.op = "effect" /\ last'.b = b
              /\ ~(/\ last.op = "render" /\ last.b = b
                   /\ last.ret = "effect: initialValue")]_vars

\* What hydrating key k with fallback init yields from the storage as it is:
\* the decoded entry, or the fallback when there is none or it does not parse.
HydratedValue(k, init) ==
    LET item == readItem(localStorage, k, init, TRUE) IN
    IF item.ok THEN item.value ELSE init

\* C15 (key change, no bleed): when the binding holds the value stored under
\* K1 and a render changes the key to K2 and nothing else, the value it
\* exposes for K2 is the result of hydrating K2, the decoded slot of K2 or
\* the fallback, and not the value the binding held for K1.
C15_NoBleedOnKeyChange ==
    [][\A b \in Bindings :
        (/\ last'.op = "render" /\ last'.b = b
         /\ key'[b] # key[b] /\ initialValue'[b] = initialValue[b]
         /\ DecodesTo(key[b], hookState[b]))
        => SameValue(storedValue'[b], HydratedValue(key'[b], initialValue'[b]))]_vars

\* C16 (current is always defined): whatever the slot holds, the state cell
\* of a mounted binding and the storedValue it returns are values of T,
\* never null.
C16_CurrentIsDefined ==
    \A b \in Bindings :
        mounted[b] => (current(b).t = "obj" /\ storedValue[b].t = "obj")

\* C17 (diagnostics on recovered failures): a hydration that finds the slot
\* present with a content that does not decode to a value of T, or whose
\* getItem fails, logs a diagnostic and throws nothing to the consumer; a
\* write whose setItem fails logs a diagnostic.
C17_FailuresAreLogged ==
    LET slot == localStorage[key[last.b]]
        decodesAsT == JSONparses(slot) /\ JSONparse(slot).t = "obj"
    IN /\ (/\ Hydration(last)
           /\ \/ GetFailed(last)
              \/ slot # NoItem /\ ~decodesAsT)
          => (Logged(last) /\ ~last.threw)
       /\ (last.op = "write" /\ SetFailed(last)) => Logged(last)

\* C18 (double binding, last writer wins): two bindings of one key can be
\* live together; when a setValue(a) of one whose setItem is done is followed
\* by a setValue(b) of the other whose setItem is done, the slot decodes to
\* b, the cell of the first holds a and the cell of the second holds b:
\* neither binding is updated by the write of the other.
C18_DoubleBinding ==
    [][(/\ last.op = "write" /\ SetSucceeded(last)
        /\ last'.op = "write" /\ SetSucceeded(last')
        /\ last'.b # last.b /\ key[last'.b] = key[last.b])
       => /\ JSONparses(localStorage'[key[last.b]])
          /\ SameValue(JSONparse(localStorage'[key[last.b]]), Requested(last'))
          /\ SameValue(hookState'[last.b], last.value)
          /\ SameValue(hookState'[last'.b], Requested(last'))]_vars

C18_Witness ==
    /\ mounted["A"] /\ mounted["B"] /\ key["A"] = key["B"]
    /\ last.op = "write" /\ last.b = "B" /\ last.after = "A"
    /\ SetSucceeded(last)
    /\ ~SameValue(current("A"), current("B"))
    /\ DecodesTo(key["B"], current("B"))
    /\ ~DecodesTo(key["A"], current("A"))

\* C19 (key stability), as claimed: every getItem and setItem call of a hook
\* instance names the key of its first render, the key it was constructed
\* with.
C19_KeyStability ==
    \A i \in Calls(last.events, "getItem") \cup Calls(last.events, "setItem") :
        last.events[i].k = firstKey[last.b]

\* C19, amended: every getItem and setItem call of a hook instance names the
\* key of its latest render; a render with another key moves the instance to
\* that key.
C19_FollowsRenderedKey ==
    \A i \in Calls(last.events, "getItem") \cup Calls(last.events, "setItem") :
        last.events[i].k = key[last.b]

C19_Witness ==
    /\ last.op = "effect" /\ mounted[last.b]
    /\ key[last.b] # firstKey[last.b]
    /\ \E i \in Calls(last.events, "getItem") :
          last.events[i].ok /\ last.events[i].k = key[last.b]
    /\ DecodesTo(key[last.b], current(last.b))
    /\ ~DecodesTo(firstKey[last.b], current(last.b))

\* C20 (only requested values): every value the state cell of a binding
\* takes is the fallback of the binding, the value a hydration decoded from
\* the slot of its key, or the value a setValue call on the binding asked
\* for, its literal or the result of its updater.
C20_OnlyRequestedValues ==
    [][\A b \in Bindings :
        (mounted'[b] /\ hookState'[b] # hookState[b])
        => \/ hookState'[b] = initialValue'[b]
           \/ /\ Hydration(last') /\ last'.b = b /\ ~GetFailed(last')
              /\ Truthy(localStorage[key'[b]])
              /\ JSONparses(localStorage[key'[b]])
              /\ hookState'[b] = JSONparse(localStorage[key'[b]])
           \/ /\ last'.op = "write" /\ last'.b = b
              /\ hookState'[b] = Requested(last')]_vars

C20_Witness ==
    /\ last.op = "write" /\ last.arg.fn /\ SetFailed(last)
    /\ mounted[last.b]
    /\ current(last.b) = Requested(last)
    /\ ~SameValue(current(last.b), initialValue[last.b])
    /\ ~DecodesTo(key[last.b], current(last.b))

\* C21 (hydration is read-only): no hydration, the initializer at
\* construction or the effect after a key or initialValue change, calls
\* setItem or changes localStorage, whatever the slot holds, an entry that
\* parses included; of the hook's handlers only setValue changes localStorage.
C21_HydrationReadOnly ==
    [][/\ Hydration(last')
          => /\ Calls(last'.events, "setItem") = {}
             /\ localStorage' = localStorage
       /\ localStorage' # localStorage
          => last'.op \in {"write", "external"}]_vars

C21_Witness ==
    /\ last.op = "effect" /\ ~GetFailed(last) /\ ~Logged(last)
    /\ key[last.b] # firstKey[last.b]
    /\ Truthy(localStorage[key[last.b]])
    /\ current(last.b).t = "obj"
    /\ DecodesTo(key[last.b], current(last.b))
    /\ Calls(last.events, "setItem") = {}

\* C22 (hydration quiesces): with no setValue call and the key unchanged, a
\* component that passes a freshly built, equal initialValue on every render
\* eventually reaches a state in which no effect and no render is pending,
\* and stays there.
C22_HydrationQuiesces ==
    <>[](\A b \in Bindings : ~effectPending[b] /\ ~needsRender[b])

\* C23 (updater that throws): when the updater passed to setValue throws,
\* setValue throws nothing, calls neither setStoredValue nor setItem, and
\* logs a diagnostic: the state cell and localStorage are unchanged.
C23_UpdaterThrows ==
    [][(/\ last'.op = "write" /\ last'.arg.fn
        /\ ~UpdaterReturns(last'.arg.f, storedValue[last'.b]))
       => /\ ~last'.threw
          /\ Calls(last'.events, "setStoredValue") = {}
          /\ Calls(last'.events, "setItem") = {}
          /\ Logged(last')
          /\ hookState' = hookState
          /\ localStorage' = localStorage]_vars

C23_Witness ==
    /\ last.op = "write" /\ last.arg.fn /\ last.arg.f = "boom"
    /\ mounted[last.b] /\ storedValue[last.b].t = "obj"
    /\ Logged(last) /\ ~last.threw
    /\ Calls(last.events, "setStoredValue") = {}
    /\ Calls(last.events, "setItem") = {}
    /\ Truthy(localStorage[key[last.b]])

\* C24 (submission gating): on LoginPage and RegisterPage a submit whose
\* validateForm finds an error sets errors to the messages found, leaves
\* isSubmitting alone, starts no request and invokes no callback; the
\* callback and the navigation happen only in a run whose formData, and for
\* RegisterPage acceptTerms, passed validateForm when it was submitted.
C24_SubmissionGating ==
    [][/\ (/\ formStep'.op = "submit"
           /\ ~IsValid(validateForm(page, formData, acceptTerms)))
          => /\ errors' = validateForm(page, formData, acceptTerms)
             /\ FormCalls(formStep'.events, "setIsSubmitting") = {}
             /\ isSubmitting' = isSubmitting
             /\ inFlight' = inFlight
             /\ callbacks' = callbacks
       /\ (\/ callbacks' # callbacks
           \/ FormCalls(formStep'.events, Callback(page)) # {}
           \/ FormCalls(formStep'.events, "navigate") # {})
          => /\ formStep'.op = "settle"
             /\ IsValid(validateForm(page, formStep'.data, formStep'.terms))]_vars

C24_Witness ==
    /\ page = "register" /\ callbacks = 1
    /\ formStep.op = "submit" /\ ~formStep.valid
    /\ errors["confirmPassword"] # "" /\ errors["name"] = ""
    /\ ~isSubmitting /\ inFlight = <<>>

\* C25 (isSubmitting is reset): a submit that passes validateForm sets
\* isSubmitting to true, and isSubmitting is eventually false again; the run
\* ends by setting it to false whether the callback and navigate return or
\* throw, and when one throws the general message is set and no navigation
\* is done.
C25_SubmittingIsReset ==
    /\ [][/\ (/\ formStep'.op = "submit"
              /\ IsValid(validateForm(page, formData, acceptTerms)))
             => /\ isSubmitting'
                /\ \E i \in FormCalls(formStep'.events, "setIsSubmitting") :
                      formStep'.events[i].arg = TRUE
          /\ (inFlight # <<>> /\ inFlight' = Tail(inFlight))
             => /\ ~isSubmitting'
                /\ formStep'.events # <<>>
                /\ formStep'.events[Len(formStep'.events)]
                      = FormEv("setIsSubmitting", FALSE, TRUE)
                /\ (\E i \in 1..Len(formStep'.events) : ~formStep'.events[i].ok)
                   => /\ errors' = Failure(page)
                      /\ \A i \in FormCalls(formStep'.events, "navigate") :
                            ~formStep'.events[i].ok]_vars
    /\ (isSubmitting ~> ~isSubmitting)

C25_Witness ==
    /\ formStep.op = "settle" /\ submits = 1
    /\ \E i \in FormCalls(formStep.events, Callback(page)) : ~formStep.events[i].ok
    /\ FormCalls(formStep.events, "navigate") = {}
    /\ errors = Failure(page)
    /\ ~isSubmitting

\* C26 (one submission in flight): while isSubmitting is true the submit
\* button is disabled and no handleSubmit run starts, so at most one run is
\* waiting at a time, and the success callback has been invoked at most
\* once for each submission that passed validation.
C26_OneSubmissionInFlight ==
    [][/\ isSubmitting' => SubmitDisabled'
       /\ isSubmitting => ~(formStep'.op = "submit")
       /\ isSubmitting => (submits' = submits /\ Len(inFlight') <= Len(inFlight))
       /\ Len(inFlight') <= 1
       /\ callbacks' + Len(inFlight') = submits']_vars

C26_Witness ==
    /\ page = "login" /\ isSubmitting /\ SubmitDisabled
    /\ Len(inFlight) = 1
    /\ submits = 2 /\ callbacks = 1
    /\ formStep.op = "change"

====
